---- MODULE Spec2Model ----
(***************************************************************************)
(* purse2btctax.py: conversion of a Purse.io transaction export into a     *)
(* bitcoin.tax import file.  The module models the two logic functions     *)
(* (get_purse_mask_sales, get_btc_tax_df), the header validator            *)
(* (is_purse_csv) and the __main__ script that chains them.                *)
(*                                                                         *)
(* Representation of Python / pandas values:                               *)
(*   - a float is a record [nan, n, d]: NaN, or the rational n/d (d > 0,   *)
(*     lowest terms);                                                      *)
(*   - a str on which the code does character work (the path, the Type     *)
(*     cells, the formatted Date) is a sequence of one-character strings;  *)
(*   - a column label is <<name, k>>: pandas renames the k-th repetition   *)
(*     of a header name to "name.k";                                       *)
(*   - a DataFrame is [cols |-> labels, rows |-> sequence of rows], a row  *)
(*     being the tuple of its cells in column order.                       *)
(***************************************************************************)
EXTENDS Integers, Sequences, FiniteSets, TLC

VARIABLES
    fp,            \* args.fp, the path given on the command line
    exists,        \* whether os.path.exists(args.fp)
    header,        \* the first line of the file, split on ","
    malformed,     \* whether read_csv meets a pandas ParserError
    content,       \* the data rows of the file
    year,          \* args.year
    verbose,       \* args.verbose
    dry,           \* args.dry
    pc,            \* position of the script
    exc,           \* the exception that ended the run, "none" otherwise
    is_purse,      \* the tuple returned by is_purse_csv
    opened,        \* number of times is_purse_csv opened the file
    df_purse,      \* read_csv(args.fp)
    mask_purse,    \* get_purse_mask_sales(df_purse)
    df_purchases,  \* df_purse.loc[mask_purse, :]
    df_btc_tax,    \* get_btc_tax_df(df_purse_purchases), a sequence of output rows
    mask_year,     \* df_btc_tax.Date.map(mapper)
    df_out,        \* df_btc_tax.loc[mask_year, :]
    printed,       \* what was printed: the table, the notice, the confirmation
    written,       \* number of to_csv calls on the output file
    calls          \* the functions called so far, in call order

vars == <<fp, exists, header, malformed, content, year, verbose, dry, pc, exc,
          is_purse, opened, df_purse, mask_purse, df_purchases, df_btc_tax,
          mask_year, df_out, printed, written, calls>>

inputs == <<fp, exists, header, malformed, content, year, verbose, dry>>

----------------------------------------------------------------------------
(* Bounds *)

MaxRows == 2      \* longest file content of the pipeline specification

MaxRowsT == 2     \* longest row set handed to the transformer alone

----------------------------------------------------------------------------
(* Generic helpers *)

Range(s) == {s[i] : i \in 1..Len(s)}

Abs(x) == IF x < 0 THEN -x ELSE x

RECURSIVE GCD(_, _)
GCD(a, b) == IF b = 0 THEN a ELSE GCD(b, a % b)

RECURSIVE SeqsUpTo(_, _)
SeqsUpTo(S, n) ==
    IF n = 0 THEN {<<>>}
    ELSE LET shorter == SeqsUpTo(S, n - 1)
         IN shorter \cup {Append(s, x) : s \in {t \in shorter : Len(t) = n - 1}, x \in S}

\* str.startswith / str.endswith on character sequences
StartsWith(s, p) == Len(p) <= Len(s) /\ SubSeq(s, 1, Len(p)) = p

EndsWith(s, p) == Len(p) <= Len(s) /\ SubSeq(s, Len(s) - Len(p) + 1, Len(s)) = p

UpperChars == <<"A","B","C","D","E","F","G","H","I","J","K","L","M",
                "N","O","P","Q","R","S","T","U","V","W","X","Y","Z">>

LowerChars == <<"a","b","c","d","e","f","g","h","i","j","k","l","m",
                "n","o","p","q","r","s","t","u","v","w","x","y","z">>

LowerChar(c) ==
    IF \E i \in 1..Len(UpperChars) : UpperChars[i] = c
    THEN LowerChars[CHOOSE i \in 1..Len(UpperChars) : UpperChars[i] = c]
    ELSE c

\* str.lower()
Lower(s) == [i \in 1..Len(s) |-> LowerChar(s[i])]

Digit(k) == <<"0","1","2","3","4","5","6","7","8","9">>[k + 1]

\* str(n) of a non-negative int
RECURSIVE Str(_)
Str(n) == IF n < 10 THEN <<Digit(n)>> ELSE Str(n \div 10) \o <<Digit(n % 10)>>

\* "%0<w>d" % n
RECURSIVE Pad(_, _)
Pad(n, w) == IF w = 0 THEN <<>> ELSE Pad(n \div 10, w - 1) \o <<Digit(n % 10)>>

----------------------------------------------------------------------------
(* Floats *)

NaN == [nan |-> TRUE, n |-> 0, d |-> 1]

Num(a, b) ==
    LET g == GCD(Abs(a), Abs(b))
        s == IF b < 0 THEN -1 ELSE 1
    IN [nan |-> FALSE, n |-> (s * a) \div g, d |-> (s * b) \div g]

IsNa(x) == x.nan

LtZero(x) == ~x.nan /\ x.n < 0          \* NaN < 0 is False

IsZero(x) == ~x.nan /\ x.n = 0 /\ x.d # 0

FAbs(x) == IF x.nan THEN NaN ELSE [x EXCEPT !.n = Abs(x.n)]

\* The IEEE quotient x / 0, which Python floats never produce: they raise
Inf == [nan |-> FALSE, n |-> 1, d |-> 0]

\* tot / vol on Python floats; a NaN operand gives NaN.  Python raises
\* ZeroDivisionError for vol = 0 (DivRaises below), so Inf is never returned.
FDiv(tot, vol) ==
    IF IsZero(vol) THEN Inf
    ELSE IF tot.nan \/ vol.nan THEN NaN
    ELSE Num(tot.n * vol.d, tot.d * vol.n)

----------------------------------------------------------------------------
(* Timestamps: to_datetime(..., utc=True) and strftime(datetime_fmt_btctax) *)

\* A Date cell: a parseable timestamp with its UTC offset in hours, or text
\* that to_datetime cannot parse (ok = FALSE).
Stamp(Y, M, D, h, off) ==
    [ok |-> TRUE, Y |-> Y, M |-> M, D |-> D, h |-> h, mi |-> 0, s |-> 0, us |-> 0,
     off |-> off]

Unparseable == [Stamp(0, 0, 0, 0, 0) EXCEPT !.ok = FALSE]

IsLeap(Y) == (Y % 4 = 0 /\ Y % 100 # 0) \/ Y % 400 = 0

DaysIn(Y, M) ==
    IF M = 2 THEN (IF IsLeap(Y) THEN 29 ELSE 28)
    ELSE IF M \in {4, 6, 9, 11} THEN 30 ELSE 31

\* utc=True: the wall-clock time moved to offset +00:00
ToUtc(t) ==
    LET hh == t.h - t.off
    IN IF hh >= 24 THEN
            IF t.D < DaysIn(t.Y, t.M) THEN [t EXCEPT !.h = hh - 24, !.D = t.D + 1, !.off = 0]
            ELSE IF t.M < 12 THEN [t EXCEPT !.h = hh - 24, !.D = 1, !.M = t.M + 1, !.off = 0]
            ELSE [t EXCEPT !.h = hh - 24, !.D = 1, !.M = 1, !.Y = t.Y + 1, !.off = 0]
       ELSE IF hh < 0 THEN
            IF t.D > 1 THEN [t EXCEPT !.h = hh + 24, !.D = t.D - 1, !.off = 0]
            ELSE IF t.M > 1
                 THEN [t EXCEPT !.h = hh + 24, !.D = DaysIn(t.Y, t.M - 1), !.M = t.M - 1,
                                !.off = 0]
            ELSE [t EXCEPT !.h = hh + 24, !.D = 31, !.M = 12, !.Y = t.Y - 1, !.off = 0]
       ELSE [t EXCEPT !.h = hh, !.off = 0]

\* datetime_fmt_btctax = "%Y-%m-%d %H:%M:%S.%f+00:00"
datetime_fmt_btctax(t) ==
    Pad(t.Y, 4) \o <<"-">> \o Pad(t.M, 2) \o <<"-">> \o Pad(t.D, 2) \o <<" ">>
    \o Pad(t.h, 2) \o <<":">> \o Pad(t.mi, 2) \o <<":">> \o Pad(t.s, 2) \o <<".">>
    \o Pad(t.us, 6) \o <<"+", "0", "0", ":", "0", "0">>

\* to_datetime(cell, utc=True).strftime(datetime_fmt_btctax)
FormatDate(t) == datetime_fmt_btctax(ToUtc(t))

----------------------------------------------------------------------------
(* Schemas *)

purse_cols == <<"Hash", "Type", "Date", "Volume", "Currency", "Fee", "Currency",
                "Amount", "Currency", "Discount", "Rate", "Description", "Year">>

bitcoin_tax_cols == <<"Date", "Action", "Symbol", "Volume", "Currency", "Account",
                      "Total", "Price", "Fee", "FeeCurrency">>

\* A field of the header line: its text with the whitespace around it.
Field(lead, text, trail) == [lead |-> lead, text |-> text, trail |-> trail]

\* str.strip
Strip(f) == f.text

\* The header line of a file whose columns are named `names`: readline() keeps
\* the line terminator on the last field.
HeaderLine(names) ==
    [i \in 1..Len(names) |->
        Field("", names[i], IF i = Len(names) THEN "\n" ELSE "")]

\* read_csv: the column name is the field without the line terminator; the
\* k-th repetition of a name (k > 0) is renamed "name.k".
ColName(f) == [f EXCEPT !.trail = IF f.trail = "\n" THEN "" ELSE f.trail]

Labels(hdr) ==
    [i \in 1..Len(hdr) |->
        <<ColName(hdr[i]),
          Cardinality({j \in 1..(i - 1) : ColName(hdr[j]) = ColName(hdr[i])})>>]

\* The label that attribute access df.<name> and df.loc[:, "<name>"] look up
Label(name) == <<Field("", name, ""), 0>>

HasCol(df, name) == \E i \in 1..Len(df.cols) : df.cols[i] = Label(name)

ColIndex(df, name) == CHOOSE i \in 1..Len(df.cols) : df.cols[i] = Label(name)

\* df.<name>.tolist()
Column(df, name) == [i \in 1..Len(df.rows) |-> df.rows[i][ColIndex(df, name)]]

\* df.iloc[:, j].values.tolist(), j counted from 0
ILoc(df, j) == [i \in 1..Len(df.rows) |-> df.rows[i][j + 1]]

\* rows.loc[mask, :]
RECURSIVE Loc(_, _)
Loc(rows, mask) ==
    IF rows = <<>> THEN <<>>
    ELSE (IF Head(mask) THEN <<Head(rows)>> ELSE <<>>) \o Loc(Tail(rows), Tail(mask))

EmptyDf == [cols |-> <<>>, rows |-> <<>>]

----------------------------------------------------------------------------
(* is_purse_csv *)

CsvExt == <<".", "c", "s", "v">>

HomeDir == <<"/", "h">>

\* os.path.expanduser
ExpandUser(path) ==
    IF path # <<>> /\ Head(path) = "~" THEN HomeDir \o Tail(path) ELSE path

\* is_purse_csv(filepath) on a file whose first line is hdr (ex: the file exists).
\* The wrong-extension branch evaluates os.path.ext, an attribute os.path does
\* not have, so that branch raises AttributeError instead of returning.
is_purse_csv(filepath, ex, hdr) ==
    LET path == ExpandUser(filepath)
        none == [raised |-> "none", flag |-> FALSE, msg |-> "", csv_cols |-> <<>>,
                 opens |-> 0]
    IN IF ~EndsWith(path, CsvExt)
       THEN [none EXCEPT !.raised = "AttributeError"]
       ELSE IF ~ex
       THEN [none EXCEPT !.raised = "FileNotFoundError"]
       ELSE LET csv_cols == [i \in 1..Len(hdr) |-> Strip(hdr[i])]
            IN [none EXCEPT !.flag = (csv_cols # purse_cols),
                            !.msg = "mismatch in cols",
                            !.csv_cols = csv_cols,
                            !.opens = 1]

----------------------------------------------------------------------------
(* get_purse_mask_sales *)

ShopStr == <<"s", "h", "o", "p">>

\* sale = df_purse.Volume.values < 0
SaleCol(df) == [i \in 1..Len(df.rows) |-> LtZero(Column(df, "Volume")[i])]

\* isfinite = ~df_purse.Amount.isna()
IsFiniteCol(df) == [i \in 1..Len(df.rows) |-> ~IsNa(Column(df, "Amount")[i])]

\* Faulty variants of the mask: without the sign test, without the Amount test
MaskNoSign(df) == IsFiniteCol(df)

MaskNoAmount(df) == SaleCol(df)

\* mask = sale & isfinite
SaleMask(df) == [i \in 1..Len(df.rows) |-> SaleCol(df)[i] /\ IsFiniteCol(df)[i]]

\* is_shop = [t.lower() == "shop" for t in df_purse.Type.values.tolist()]
IsShop(df) == [i \in 1..Len(df.rows) |-> Lower(Column(df, "Type")[i]) = ShopStr]

get_purse_mask_sales(df) ==
    IF ~HasCol(df, "Volume") \/ ~HasCol(df, "Amount") \/ ~HasCol(df, "Type")
    THEN [raised |-> "AttributeError", mask |-> <<>>]
    ELSE IF IsShop(df) # SaleMask(df)
    THEN [raised |-> "ValueError", mask |-> <<>>]
    ELSE [raised |-> "none", mask |-> SaleMask(df)]

----------------------------------------------------------------------------
(* get_btc_tax_df *)

\* date = to_datetime(df_purse.Date, utc=True).dt.strftime(...).tolist()
DateCol(df) == [i \in 1..Len(df.rows) |-> FormatDate(Column(df, "Date")[i])]

\* symbol = df_purse.iloc[:, 4]
SymbolCol(df) == ILoc(df, 4)

\* Faulty variant of volume: abs() forgotten
VolumeSigned(df) == Column(df, "Volume")

\* volume = list(map(abs, df_purse.loc[:, "Volume"].values.tolist()))
VolumeCol(df) == [i \in 1..Len(df.rows) |-> FAbs(Column(df, "Volume")[i])]

\* currency = df_purse.iloc[:, 8]
CurrencyCol(df) == ILoc(df, 8)

\* total = df_purse.Amount.tolist()
TotalCol(df) == Column(df, "Amount")

\* Faulty variant of price: total divided by the signed Volume
PriceSigned(df) ==
    [i \in 1..Len(df.rows) |-> FDiv(TotalCol(df)[i], VolumeSigned(df)[i])]

\* price = [tot / vol for tot, vol in zip(total, volume)]
PriceCol(df) == [i \in 1..Len(df.rows) |-> FDiv(TotalCol(df)[i], VolumeCol(df)[i])]

\* fee = df_purse.Fee.values.tolist()
FeeCol(df) == Column(df, "Fee")

\* Variant of fee_currency that reads the first Currency column
FeeCurrencyFirst(df) == ILoc(df, 4)

\* fee_currency = df_purse.iloc[:, 6]
FeeCurrencyCol(df) == ILoc(df, 6)

\* Variant in which a zero divisor yields Inf instead of raising (numpy floats)
DivNeverRaises(df) == FALSE

\* tot / vol raises ZeroDivisionError when vol is 0 (Python floats)
DivRaises(df) == \E i \in 1..Len(df.rows) : IsZero(VolumeCol(df)[i])

\* DataFrame(list(zip(...)), columns=bitcoin_tax_cols)
BtcTaxRows(df) ==
    [i \in 1..Len(df.rows) |->
        [Date        |-> DateCol(df)[i],
         Action      |-> "SELL",
         Symbol      |-> SymbolCol(df)[i],
         Volume      |-> VolumeCol(df)[i],
         Currency    |-> CurrencyCol(df)[i],
         Account     |-> "Purse.io",
         Total       |-> TotalCol(df)[i],
         Price       |-> PriceCol(df)[i],
         Fee         |-> FeeCol(df)[i],
         FeeCurrency |-> FeeCurrencyCol(df)[i]]]

get_btc_tax_df(df) ==
    IF ~HasCol(df, "Date")
    THEN [raised |-> "AttributeError", rows |-> <<>>]
    ELSE IF \E i \in 1..Len(df.rows) : ~Column(df, "Date")[i].ok
    THEN [raised |-> "ValueError", rows |-> <<>>]
    ELSE IF Len(df.cols) < 9
    THEN [raised |-> "IndexError", rows |-> <<>>]
    ELSE IF ~HasCol(df, "Volume") \/ ~HasCol(df, "Amount")
    THEN [raised |-> "AttributeError", rows |-> <<>>]
    ELSE IF DivRaises(df)
    THEN [raised |-> "ZeroDivisionError", rows |-> <<>>]
    ELSE IF ~HasCol(df, "Fee")
    THEN [raised |-> "AttributeError", rows |-> <<>>]
    ELSE [raised |-> "none", rows |-> BtcTaxRows(df)]

----------------------------------------------------------------------------
(* Year filter *)

\* Variant of mapper that compares the four-digit year instead of a prefix
MapperByYear(date, y) == date = Pad(y, 4) \o SubSeq(date, 5, Len(date))

\* mapper = lambda date: date.startswith(str(args.year))
mapper(date, y) == StartsWith(date, Str(y))

\* mask_year = df_btc_tax.Date.map(mapper).values
MaskYear(rows, y) == [i \in 1..Len(rows) |-> mapper(rows[i].Date, y)]

----------------------------------------------------------------------------
(* Inputs *)

Chars(type) ==
    CASE type = "shop"     -> <<"s", "h", "o", "p">>
      [] type = "Shop"     -> <<"S", "h", "o", "p">>
      [] type = "SHOP"     -> <<"S", "H", "O", "P">>
      [] type = "deposit"  -> <<"d", "e", "p", "o", "s", "i", "t">>
      [] type = "purchase" -> <<"p", "u", "r", "c", "h", "a", "s", "e">>

\* One line of the export, in the column order of purse_cols
PurseRow(type, date, volume, cur1, fee, cur2, amount, cur3) ==
    <<"hash", Chars(type), date, volume, cur1, fee, cur2, amount, cur3,
      Num(0, 1), Num(1, 1), "description", date.Y>>

June2020 == Stamp(2020, 6, 1, 0, 0)          \* 2020-06-01T00:00:00Z

NewYearsEve == Stamp(2020, 12, 31, 23, -5)   \* 2020-12-31T23:00:00-05:00

March2021 == Stamp(2021, 3, 1, 2, 5)         \* 2021-03-01T02:00:00+05:00

\* Rows of the pipeline specification: sales, other transactions, and rows
\* whose Type label disagrees with the numeric signal.
Rows ==
    { PurseRow("shop", June2020, Num(-1, 2), "BTC", Num(1, 100), "BTC", Num(100, 1), "USD"),
      PurseRow("Shop", NewYearsEve, Num(-2, 1), "BTC", Num(0, 1), "USD", Num(3, 1), "USD"),
      PurseRow("SHOP", March2021, Num(-1, 1), "BCH", Num(0, 1), "BCH", Num(7, 1), "EUR"),
      PurseRow("deposit", June2020, Num(1, 1), "BTC", Num(0, 1), "BTC", NaN, "USD"),
      PurseRow("deposit", March2021, Num(-1, 1), "BTC", Num(0, 1), "BTC", NaN, "USD"),
      PurseRow("shop", June2020, Num(0, 1), "BTC", Num(0, 1), "BTC", Num(5, 1), "USD"),
      PurseRow("purchase", June2020, Num(-1, 2), "BTC", Num(0, 1), "BTC", Num(100, 1), "USD"),
      PurseRow("shop", Unparseable, Num(-1, 1), "BTC", Num(0, 1), "BTC", Num(10, 1), "USD") }

\* Rows handed to the transformer alone: every combination of the cells it reads
RowsT ==
    { PurseRow("shop", date, volume, "BTC", Num(1, 100), cur2, amount, "USD") :
        date \in {NewYearsEve, Unparseable},
        volume \in {Num(-1, 2), Num(0, 1), Num(2, 1)},
        cur2 \in {"BTC", "USD"},
        amount \in {NaN, Num(3, 1), Num(100, 1)} }

Renamed(names, i, name) == [names EXCEPT ![i] = name]

\* First lines of the files: the export's own header, the same with blanks
\* around a field, and headers that deviate from the schema.
Headers ==
    { HeaderLine(purse_cols),
      [HeaderLine(purse_cols) EXCEPT ![2] = Field(" ", "Type", " ")],
      HeaderLine(Renamed(purse_cols, 1, "TxHash")),
      HeaderLine(Renamed(Renamed(purse_cols, 10, "Rate"), 11, "Discount")),
      HeaderLine(Renamed(purse_cols, 4, "Vol")),
      HeaderLine(Renamed(purse_cols, 3, "Time")) }

Path(ext) == <<"p">> \o ext

Paths == { Path(CsvExt), Path(<<".", "C", "S", "V">>), Path(<<".", "t", "x", "t">>) }

Years == {2020, 202}

NoResult ==
    [raised |-> "none", flag |-> FALSE, msg |-> "", csv_cols |-> <<>>, opens |-> 0]

----------------------------------------------------------------------------
(* The __main__ script *)

Init ==
    /\ fp \in Paths
    /\ exists \in BOOLEAN
    /\ header \in Headers
    /\ malformed \in BOOLEAN
    /\ content \in SeqsUpTo(Rows, MaxRows)
    /\ year \in Years
    /\ verbose \in BOOLEAN
    /\ dry \in BOOLEAN
    /\ pc = "args"
    /\ exc = "none"
    /\ is_purse = NoResult
    /\ opened = 0
    /\ df_purse = EmptyDf
    /\ mask_purse = <<>>
    /\ df_purchases = EmptyDf
    /\ df_btc_tax = <<>>
    /\ mask_year = <<>>
    /\ df_out = <<>>
    /\ printed = {}
    /\ written = 0
    /\ calls = <<>>

Raise(e) == pc' = "raised" /\ exc' = e

\* lines 186-190: the extension and existence checks on args.fp
CheckArgs ==
    /\ pc = "args"
    /\ IF ~EndsWith(Lower(fp), CsvExt) THEN Raise("ValueError")
       ELSE IF ~exists THEN Raise("FileNotFoundError")
       ELSE pc' = "validate" /\ exc' = exc
    /\ UNCHANGED <<inputs, calls, is_purse, opened, df_purse, mask_purse, df_purchases,
                   df_btc_tax, mask_year, df_out, printed, written>>

\* lines 192-198: is_purse_file, msg, d = is_purse_csv(args.fp)
Validate ==
    /\ pc = "validate"
    /\ calls' = Append(calls, "is_purse_csv")
    /\ LET r == is_purse_csv(fp, exists, header)
       IN /\ is_purse' = r
          /\ opened' = opened + r.opens
          /\ IF r.raised # "none" THEN Raise(r.raised)
             ELSE IF ~r.flag THEN Raise("ValueError")
             ELSE pc' = "read" /\ exc' = exc
    /\ UNCHANGED <<inputs, df_purse, mask_purse, df_purchases, df_btc_tax, mask_year,
                   df_out, printed, written>>

\* lines 201-204: df_purse = read_csv(args.fp)
ReadCsv ==
    /\ pc = "read"
    /\ calls' = Append(calls, "read_csv")
    /\ IF malformed
       THEN Raise("ValueError") /\ df_purse' = df_purse
       ELSE /\ df_purse' = [cols |-> Labels(header), rows |-> content]
            /\ pc' = "mask"
            /\ exc' = exc
    /\ UNCHANGED <<inputs, is_purse, opened, mask_purse, df_purchases, df_btc_tax,
                   mask_year, df_out, printed, written>>

\* lines 207-208: the sale mask and the rows it selects
MaskSales ==
    /\ pc = "mask"
    /\ calls' = Append(calls, "get_purse_mask_sales")
    /\ LET r == get_purse_mask_sales(df_purse)
       IN IF r.raised # "none"
          THEN Raise(r.raised) /\ UNCHANGED <<mask_purse, df_purchases>>
          ELSE /\ mask_purse' = r.mask
               /\ df_purchases' = [df_purse EXCEPT !.rows = Loc(df_purse.rows, r.mask)]
               /\ pc' = "tax"
               /\ exc' = exc
    /\ UNCHANGED <<inputs, is_purse, opened, df_purse, df_btc_tax, mask_year, df_out,
                   printed, written>>

\* line 211: df_btc_tax = get_btc_tax_df(df_purse_purchases)
BtcTax ==
    /\ pc = "tax"
    /\ calls' = Append(calls, "get_btc_tax_df")
    /\ LET r == get_btc_tax_df(df_purchases)
       IN IF r.raised # "none"
          THEN Raise(r.raised) /\ df_btc_tax' = df_btc_tax
          ELSE df_btc_tax' = r.rows /\ pc' = "filter" /\ exc' = exc
    /\ UNCHANGED <<inputs, is_purse, opened, df_purse, mask_purse, df_purchases,
                   mask_year, df_out, printed, written>>

\* lines 213-224: the year mask; the notice when it selects nothing
YearFilter ==
    /\ pc = "filter"
    /\ mask_year' = MaskYear(df_btc_tax, year)
    /\ IF \A i \in 1..Len(df_btc_tax) : ~mask_year'[i]
       THEN /\ printed' = printed \cup {"notice"}
            /\ df_out' = df_out
            /\ pc' = "done"
       ELSE /\ df_out' = Loc(df_btc_tax, mask_year')
            /\ printed' = printed
            /\ pc' = "display"
    /\ UNCHANGED <<inputs, calls, exc, is_purse, opened, df_purse, mask_purse, df_purchases,
                   df_btc_tax, written>>

\* lines 227-228: pandas_print(df_btc_tax) when verbose or dry
Display ==
    /\ pc = "display"
    /\ printed' = IF verbose \/ dry THEN printed \cup {"table"} ELSE printed
    /\ pc' = "save"
    /\ UNCHANGED <<inputs, calls, exc, is_purse, opened, df_purse, mask_purse, df_purchases,
                   df_btc_tax, mask_year, df_out, written>>

\* lines 231-236: df_btc_tax.to_csv(fp_btc_tax, index=False) unless dry
Save ==
    /\ pc = "save"
    /\ IF ~dry
       THEN /\ written' = written + 1
            /\ printed' = printed \cup {"saved"}
            /\ calls' = Append(calls, "to_csv")
       ELSE UNCHANGED <<written, printed, calls>>
    /\ pc' = "done"
    /\ UNCHANGED <<inputs, exc, is_purse, opened, df_purse, mask_purse, df_purchases,
                   df_btc_tax, mask_year, df_out>>

Next ==
    \/ CheckArgs
    \/ Validate
    \/ ReadCsv
    \/ MaskSales
    \/ BtcTax
    \/ YearFilter
    \/ Display
    \/ Save

Spec == Init /\ [][Next]_vars

----------------------------------------------------------------------------
(* get_btc_tax_df called on its own, on any row set with the export's columns *)

InitT ==
    /\ fp = Path(CsvExt)
    /\ exists = TRUE
    /\ header = HeaderLine(purse_cols)
    /\ malformed = FALSE
    /\ content = <<>>
    /\ year = 2020
    /\ verbose = FALSE
    /\ dry = TRUE
    /\ pc = "call"
    /\ exc = "none"
    /\ is_purse = NoResult
    /\ opened = 0
    /\ df_purse = EmptyDf
    /\ mask_purse = <<>>
    /\ df_purchases \in {[cols |-> Labels(header), rows |-> r] :
                            r \in SeqsUpTo(RowsT, MaxRowsT)}
    /\ df_btc_tax = <<>>
    /\ mask_year = <<>>
    /\ df_out = <<>>
    /\ printed = {}
    /\ written = 0
    /\ calls = <<>>

CallBtcTax ==
    /\ pc = "call"
    /\ calls' = Append(calls, "get_btc_tax_df")
    /\ LET r == get_btc_tax_df(df_purchases)
       IN IF r.raised # "none"
          THEN Raise(r.raised) /\ df_btc_tax' = df_btc_tax
          ELSE df_btc_tax' = r.rows /\ pc' = "returned" /\ exc' = exc
    /\ UNCHANGED <<inputs, is_purse, opened, df_purse, mask_purse, df_purchases,
                   mask_year, df_out, printed, written>>

NextT == CallBtcTax

SpecT == InitT /\ [][NextT]_vars

----------------------------------------------------------------------------
(* Properties *)

Called(f) == f \in Range(calls)

\* The header line equals the schema once each field is trimmed
HeaderMatches == [i \in 1..Len(header) |-> header[i].text] = purse_cols

ExtensionOk == EndsWith(Lower(fp), CsvExt)

\* The cells of a row of the export, by the column positions of purse_cols
TypeOf(row) == row[2]

VolumeOf(row) == row[4]

FirstCurrencyOf(row) == row[5]

FeeOf(row) == row[6]

SecondCurrencyOf(row) == row[7]

AmountOf(row) == row[8]

\* The numeric signal and the textual signal of "this row is a sale"
NumericSale(row) == (~VolumeOf(row).nan /\ VolumeOf(row).n < 0) /\ ~AmountOf(row).nan

LabelledShop(row) == Lower(TypeOf(row)) = <<"s", "h", "o", "p">>

\* The mask builder finds its three columns at the schema's positions
MaskColumnsPresent ==
    /\ df_purse.cols[2] = Label("Type")
    /\ df_purse.cols[4] = Label("Volume")
    /\ df_purse.cols[8] = Label("Amount")

MaskReturned == Called("get_purse_mask_sales") /\ df_purchases # EmptyDf

MaskRaised == Called("get_purse_mask_sales") /\ df_purchases = EmptyDf

\* C1: is_purse_csv returns a true flag iff the trimmed header equals
\* purse_cols; a deviating header aborts the run with ValueError before
\* read_csv, the mask or the transformer run, and a matching header proceeds
\* to read_csv.
C1_HeaderAcceptedIffMatches ==
    (Called("is_purse_csv") /\ is_purse.raised = "none") =>
        /\ is_purse.flag = HeaderMatches
        /\ HeaderMatches => pc # "raised"
        /\ ~HeaderMatches => /\ pc = "raised"
                             /\ exc = "ValueError"
                             /\ ~Called("read_csv")
                             /\ ~Called("get_purse_mask_sales")
                             /\ ~Called("get_btc_tax_df")

\* C2: get_purse_mask_sales raises (no transformer call, no output file) when
\* some row has its shop label different from (Volume < 0 and Amount not
\* null), and otherwise returns a mask equal, row by row, to both signals.
C2_MaskAgreesOrRaises ==
    (Called("get_purse_mask_sales") /\ MaskColumnsPresent) =>
        IF \E i \in 1..Len(df_purse.rows) :
              LabelledShop(df_purse.rows[i]) # NumericSale(df_purse.rows[i])
        THEN /\ MaskRaised
             /\ pc = "raised"
             /\ exc = "ValueError"
             /\ ~Called("get_btc_tax_df")
             /\ written = 0
        ELSE /\ MaskReturned
             /\ Len(mask_purse) = Len(df_purse.rows)
             /\ \A i \in 1..Len(df_purse.rows) :
                   /\ mask_purse[i] = LabelledShop(df_purse.rows[i])
                   /\ mask_purse[i] = NumericSale(df_purse.rows[i])

C2_Witness ==
    /\ MaskReturned
    /\ MaskColumnsPresent
    /\ \E i, j \in 1..Len(mask_purse) : mask_purse[i] /\ ~mask_purse[j]

\* C3: the output file is written at most once, and only after the extension
\* check, the existence check, header validation, parsing, the mask check
\* and the transformer succeeded, with a row in the target year and dry
\* unset; an empty year filter ends the run normally with the notice.
C3_WrittenOnlyAfterAllChecks ==
    /\ written <= 1
    /\ written = 1 =>
          /\ ExtensionOk
          /\ exists
          /\ HeaderMatches
          /\ ~malformed
          /\ MaskReturned
          /\ Called("get_btc_tax_df")
          /\ \E i \in 1..Len(df_btc_tax) : StartsWith(df_btc_tax[i].Date, Str(year))
          /\ ~dry
    /\ (pc = "raised" \/ dry \/ "notice" \in printed) => written = 0
    /\ "notice" \in printed => pc = "done" /\ exc = "none"

\* C4: get_btc_tax_df maps rows one to one and in order: as many output rows
\* as input rows, and output row i has Volume = abs(input Volume) >= 0,
\* Total = input Amount, Fee = input Fee, Action "SELL", Account "Purse.io".
C4_RowsMappedInOrder ==
    pc = "returned" =>
        /\ Len(df_btc_tax) = Len(df_purchases.rows)
        /\ \A i \in 1..Len(df_btc_tax) :
              LET in == df_purchases.rows[i]
                  out == df_btc_tax[i]
              IN /\ out.Volume.d = VolumeOf(in).d
                 /\ out.Volume.n = (IF VolumeOf(in).n < 0 THEN -VolumeOf(in).n
                                    ELSE VolumeOf(in).n)
                 /\ out.Volume.n >= 0
                 /\ out.Total = AmountOf(in)
                 /\ out.Fee = FeeOf(in)
                 /\ out.Action = "SELL"
                 /\ out.Account = "Purse.io"

C4_Witness ==
    /\ pc = "returned"
    /\ Len(df_btc_tax) = 2
    /\ VolumeOf(df_purchases.rows[1]).n < 0
    /\ VolumeOf(df_purchases.rows[2]).n > 0
    /\ df_btc_tax[1].Total # df_btc_tax[2].Total

\* C5 as stated: FeeCurrency and Symbol are both copied from the first
\* Currency column (header position 5), so they are equal in every row.
C5_FeeCurrencyIsSymbol ==
    pc = "returned" =>
        \A i \in 1..Len(df_btc_tax) :
            /\ df_btc_tax[i].Symbol = FirstCurrencyOf(df_purchases.rows[i])
            /\ df_btc_tax[i].FeeCurrency = FirstCurrencyOf(df_purchases.rows[i])
            /\ df_btc_tax[i].FeeCurrency = df_btc_tax[i].Symbol

\* C5 amended: Symbol is copied from the first Currency column (header
\* position 5) and FeeCurrency from the second (header position 7, the one
\* after Fee), so FeeCurrency = Symbol exactly in the rows where those two
\* cells are equal.
C5_FeeCurrencyFromSecondCurrency ==
    pc = "returned" =>
        \A i \in 1..Len(df_btc_tax) :
            /\ df_btc_tax[i].Symbol = FirstCurrencyOf(df_purchases.rows[i])
            /\ df_btc_tax[i].FeeCurrency = SecondCurrencyOf(df_purchases.rows[i])
            /\ (df_btc_tax[i].FeeCurrency = df_btc_tax[i].Symbol)
                  <=> (FirstCurrencyOf(df_purchases.rows[i])
                          = SecondCurrencyOf(df_purchases.rows[i]))

C5_Witness ==
    /\ pc = "returned"
    /\ \E i \in 1..Len(df_btc_tax) :
          /\ FirstCurrencyOf(df_purchases.rows[i]) # SecondCurrencyOf(df_purchases.rows[i])
          /\ df_btc_tax[i].FeeCurrency # df_btc_tax[i].Symbol

HasYearPrefix(row) ==
    /\ Len(row.Date) >= Len(Str(year))
    /\ \A k \in 1..Len(Str(year)) : row.Date[k] = Str(year)[k]

YearFilterDone == pc \in {"display", "save", "done"}

\* C6: the year filter retains exactly the transformed rows whose formatted
\* Date starts with the decimal string of the target year, in their order.
C6_YearFilterIsPrefixMatch ==
    YearFilterDone =>
        IF "notice" \in printed
        THEN \A i \in 1..Len(df_btc_tax) : ~HasYearPrefix(df_btc_tax[i])
        ELSE df_out = SelectSeq(df_btc_tax, HasYearPrefix)

C6_Witness ==
    /\ pc = "done"
    /\ df_out # <<>>
    /\ Len(df_out) < Len(df_btc_tax)

\* C7: for a path whose extension is not ".csv" the validator returns a
\* rejection (false flag, reason, payload) without raising and without
\* opening the file, and a ".CSV" path that passed the command-line check is
\* not rejected by the validator for its extension.
C7_ExtensionRejectedWithoutRaising ==
    Called("is_purse_csv") =>
        /\ is_purse.raised = "none"
        /\ ~EndsWith(fp, CsvExt) => (~is_purse.flag /\ is_purse.opens = 0 /\ ~ExtensionOk)
        /\ ExtensionOk => is_purse.opens = 1

\* C8: for every output row with Volume # 0, Price * Volume = Total, Volume
\* being the absolute value (over rows with a Total, where the division is
\* exact in the rationals).
C8_PriceTimesVolumeIsTotal ==
    pc = "returned" =>
        \A i \in 1..Len(df_btc_tax) :
            LET out == df_btc_tax[i]
            IN (out.Volume.n # 0 /\ ~out.Total.nan) =>
                  /\ ~out.Price.nan
                  /\ out.Price.d # 0
                  /\ out.Price.n * out.Volume.n * out.Total.d
                        = out.Total.n * out.Price.d * out.Volume.d

C8_Witness ==
    /\ pc = "returned"
    /\ \E i \in 1..Len(df_btc_tax) :
          /\ VolumeOf(df_purchases.rows[i]).n < 0
          /\ ~df_btc_tax[i].Total.nan
          /\ df_btc_tax[i].Price.n > df_btc_tax[i].Total.n

ZeroVolumeRow ==
    \E i \in 1..Len(df_purchases.rows) :
        ~VolumeOf(df_purchases.rows[i]).nan /\ VolumeOf(df_purchases.rows[i]).n = 0

DatesParse == \A i \in 1..Len(df_purchases.rows) : df_purchases.rows[i][3].ok

\* C9 as stated: with a row whose Volume is zero the transformer does not
\* raise; it returns its rows, that row's Price being an infinite or
\* undefined marker.
C9_ZeroVolumePropagates ==
    (pc # "call" /\ ZeroVolumeRow /\ DatesParse) =>
        /\ pc = "returned"
        /\ \A i \in 1..Len(df_purchases.rows) :
              VolumeOf(df_purchases.rows[i]).n = 0 =>
                  (df_btc_tax[i].Price.nan \/ df_btc_tax[i].Price.d = 0)

\* C9 amended: with a row whose Volume is zero (and every Date parseable)
\* the price computation raises ZeroDivisionError: the transformer returns
\* no row set and no Price is produced.
C9_ZeroVolumeRaises ==
    (pc # "call" /\ ZeroVolumeRow /\ DatesParse) =>
        /\ pc = "raised"
        /\ exc = "ZeroDivisionError"
        /\ df_btc_tax = <<>>

C9_Witness ==
    /\ pc = "raised"
    /\ exc = "ZeroDivisionError"
    /\ ZeroVolumeRow
    /\ Len(df_purchases.rows) = 2

\* C10: in the pipeline every row given to get_btc_tax_df was selected by
\* the mask: Volume < 0, Amount not null, Type "shop" ignoring case; so the
\* price division never meets a zero volume and every row of the output has
\* Volume > 0.
C10_OnlySalesReachTransformer ==
    Called("get_btc_tax_df") =>
        /\ \A i \in 1..Len(df_purchases.rows) :
              LET row == df_purchases.rows[i]
              IN /\ ~VolumeOf(row).nan /\ VolumeOf(row).n < 0
                 /\ ~AmountOf(row).nan
                 /\ LabelledShop(row)
        /\ exc # "ZeroDivisionError"
        /\ \A i \in 1..Len(df_btc_tax) : df_btc_tax[i].Volume.n > 0
        /\ \A i \in 1..Len(df_out) : df_out[i].Volume.n > 0

C10_Witness ==
    /\ written = 1
    /\ df_out # <<>>
    /\ Len(df_purchases.rows) < Len(df_purse.rows)

====
